---- MODULE Spec2Model ----
(***************************************************************************)
(* Model of cfsiv_utils/filehandling.py (and the older copy kept under     *)
(* build/lib/utils/filehandling.py): file-name sanitising, collision       *)
(* avoidance, copying into derived sub-directories and CSV appending.      *)
(*                                                                         *)
(* Strings are sequences of one-character strings.  A path is the sequence *)
(* of its components below the filesystem root, so <<>> is "/".            *)
(* The filesystem is a function from the paths that exist to their entry:  *)
(* a directory, or a regular file with its content and modification time.  *)
(***************************************************************************)
EXTENDS Integers, Sequences, FiniteSets, TLC

VARIABLES fs,    \* the filesystem: path -> entry
          last,  \* the call that produced this state: operation, arguments, outcome
          log,   \* per CSV path: was it absent before the first write_csv call on it, and
                 \* the batches of the calls on it, in call order
          rotator, \* the Rotator object: its size limit and next rotation instant
          sink     \* the log file the rotator guards: its length, and the clock

vars == <<fs, last, log, rotator, sink>>

-----------------------------------------------------------------------------
(* Bounds *)

MaxLen == 3        \* longest string handed to clean_filename_str
MaxNodes == 9      \* filesystem entries beyond which no further call is made
MaxCalls == 2      \* write_csv calls per run
MaxBatch == 2      \* records per write_csv batch
MaxTime == 72      \* hours of clock over which messages are logged

-----------------------------------------------------------------------------
(* Values *)

\* Arguments carry the name of their class, type(x).__name__.  pathlib makes
\* every path an instance of the platform's class, so type(Path(...)) is
\* PosixPath here and never Path itself.
None == [type |-> "NoneType"]
PathObj(p) == [type |-> "PosixPath", path |-> p]
StrObj(s) == [type |-> "str", str |-> s]
IntObj(n) == [type |-> "int", int |-> n]
BoolObj(b) == [type |-> "bool", bool |-> b]
\* a Path the model keeps as its text, str(path)
PathText(t) == [type |-> "PosixPath", text |-> t]

Return(v) == [kind |-> "return", value |-> v]
Raise(e) == [kind |-> "raise", value |-> e]
Caught(e) == [kind |-> "caught", value |-> e]

Dir == [kind |-> "dir"]
File(d, t) == [kind |-> "file", data |-> d, mtime |-> t]

exists(f, p) == p \in DOMAIN f
is_file(f, p) == p \in DOMAIN f /\ f[p].kind = "file"
is_dir(f, p) == p \in DOMAIN f /\ f[p].kind = "dir"

Files(f) == {p \in DOMAIN f : f[p].kind = "file"}

\* the component names the runs use
Ns == <<"s">>
Nr == <<"r">>
Nc == <<"c">>
Nabt == <<"a", "b", ".", "t">>
Nzz == <<"z", "z">>
Nt == <<"t">>
Na == <<"a">>
Nb == <<"b">>
Nx == <<"x">>

\* the current working directory of the process
cwd == <<Ns>>

-----------------------------------------------------------------------------
(* Strings and pathlib *)

DigitChars == <<"0", "1", "2", "3", "4", "5", "6", "7", "8", "9">>

RECURSIVE Digits(_)
\* str(n) for a natural number n
Digits(n) ==
    IF n < 10 THEN <<DigitChars[n + 1]>>
    ELSE Digits(n \div 10) \o <<DigitChars[(n % 10) + 1]>>

\* format(n, "02"): at least two digits, zero padded
Digits02(n) == IF n < 10 THEN <<"0">> \o Digits(n) ELSE Digits(n)

\* name.rfind("."), 1-based, 0 when there is no dot
rfind_dot(name) ==
    LET dots == {i \in 1..Len(name) : name[i] = "."}
    IN IF dots = {} THEN 0 ELSE CHOOSE i \in dots : \A j \in dots : j <= i

\* PurePath.suffix: the last dot starts a suffix unless it leads or ends the name
suffix(name) ==
    LET i == rfind_dot(name)
    IN IF 1 < i /\ i < Len(name) THEN SubSeq(name, i, Len(name)) ELSE <<>>

\* PurePath.stem
stem(name) ==
    LET i == rfind_dot(name)
    IN IF 1 < i /\ i < Len(name) THEN SubSeq(name, 1, i - 1) ELSE name

\* PurePath.name: the last component, empty for the root and for "."
name_of(p) == IF p = <<>> THEN <<>> ELSE p[Len(p)]

\* PurePath.with_name
with_name(p, n) == SubSeq(p, 1, Len(p) - 1) \o <<n>>

\* str(Path(s)) for a string s without separators: the empty path is "."
PathStr(s) == IF s = <<>> THEN <<".">> ELSE s

\* Path(directory, Path(s)) for a separator-free s: "." adds no component
JoinPath(d, s) == IF s = <<".">> \/ s = <<>> THEN d ELSE d \o <<s>>

\* mkdir without exist_ok: a directory that is already there is an error
mkdir_ok_strict(f, p) ==
    /\ ~ exists(f, p)
    /\ \A k \in 0..Len(p) : ~ is_file(f, SubSeq(p, 1, k))

\* Path.mkdir(parents=True, exist_ok=True): whether it succeeds, and the
\* filesystem afterwards
mkdir_ok(f, p) == \A k \in 0..Len(p) : ~ is_file(f, SubSeq(p, 1, k))

mkdir(f, p) ==
    IF mkdir_ok(f, p)
    THEN [q \in DOMAIN f \cup {SubSeq(p, 1, k) : k \in 0..Len(p)} |->
             IF q \in DOMAIN f THEN f[q] ELSE Dir]
    ELSE f

-----------------------------------------------------------------------------
(* clean_filename_str *)

InvalidChars == {"\\", "/", ":", "*", "?", "<", ">", "|", "-"}

\* "".join(i for i in fn if i not in "\/:*?<>|-")
Kept(fn) == SelectSeq(fn, LAMBDA c : c \notin InvalidChars)

RECURSIVE JoinWith(_, _)
\* sep.join(chars)
JoinWith(sep, chars) ==
    IF Len(chars) <= 1 THEN chars
    ELSE <<chars[1], sep>> \o JoinWith(sep, Tail(chars))

\* cfsiv_utils: Path("".join(...)), given as the text of the returned Path
clean_filename_str(fn) == PathStr(Kept(fn))

\* build/lib: Path("_".join(...))
clean_filename_str_build(fn) == PathStr(JoinWith("_", Kept(fn)))

-----------------------------------------------------------------------------
(* new_name_if_exists *)

RECURSIVE new_name_loop(_, _, _, _)
new_name_loop(f, file, new_name, i) ==
    IF ~ is_file(f, new_name) THEN new_name
    ELSE new_name_loop(f, file,
                       with_name(file, stem(name_of(file)) \o <<"(">> \o Digits(i) \o <<")">>
                                        \o suffix(name_of(file))),
                       i + 1)

new_name_if_exists(f, file) == new_name_loop(f, file, file, 1)

-----------------------------------------------------------------------------
(* shutil.copy2 and copy_to_target *)

\* shutil.copy2(src, dst): a directory dst stands for dst/basename(src); the
\* source is opened first, then the destination is opened for writing
\* (truncating a regular file that is there); content and mtime are copied.
copy2_dst(f, src, dst) == IF is_dir(f, dst) THEN JoinPath(dst, name_of(src)) ELSE dst

copy2_error(f, src, dst) ==
    LET d == copy2_dst(f, src, dst)
    IN IF src = d /\ exists(f, src) THEN "SameFileError"
       ELSE IF ~ exists(f, src) THEN "FileNotFoundError"
       ELSE IF is_dir(f, src) THEN "IsADirectoryError"
       ELSE IF is_dir(f, d) THEN "IsADirectoryError"
       ELSE IF d = <<>> THEN "IsADirectoryError"
       ELSE IF is_file(f, SubSeq(d, 1, Len(d) - 1)) THEN "NotADirectoryError"
       ELSE IF ~ is_dir(f, SubSeq(d, 1, Len(d) - 1)) THEN "FileNotFoundError"
       ELSE "none"

copy2(f, src, dst) ==
    LET d == copy2_dst(f, src, dst)
    IN [q \in DOMAIN f \cup {d} |-> IF q = d THEN File(f[src].data, f[src].mtime) ELSE f[q]]

\* copy_to_target(file, target_diectory): the filesystem afterwards and the
\* outcome; file.name is read after the target's type is tested
copy_to_target(f, file, target_diectory) ==
    IF target_diectory # None /\ target_diectory.type # "Path"
    THEN [fs |-> f, res |-> Raise("FileNotFoundError")]
    ELSE IF file.type # "PosixPath"
    THEN [fs |-> f, res |-> Raise("AttributeError")]
    ELSE LET dir == IF target_diectory = None THEN cwd ELSE target_diectory.path
             new_file == new_name_if_exists(f, JoinPath(dir, name_of(file.path)))
         IN IF copy2_error(f, file.path, new_file) # "none"
            THEN [fs |-> f, res |-> Raise("SpecialFileError")]
            ELSE [fs |-> copy2(f, file.path, new_file), res |-> Return(TRUE)]

-----------------------------------------------------------------------------
(* Sub-directories derived from the modification time or from the name *)

\* timefstring(timestamp): the calendar year and month of a Unix timestamp
timefstring(t) ==
    LET z == (t \div 86400) + 719468
        era == z \div 146097
        doe == z - era * 146097
        yoe == (doe - (doe \div 1460) + (doe \div 36524) - (doe \div 146096)) \div 365
        doy == doe - (365 * yoe + (yoe \div 4) - (yoe \div 100))
        mp == (5 * doy + 2) \div 153
        m == IF mp < 10 THEN mp + 3 ELSE mp - 9
        y == yoe + era * 400
    IN [year |-> IF m <= 2 THEN y + 1 ELSE y, month |-> m]

\* file.stat().st_mtime: a regular file's is the one stored with it; a
\* directory's is whenever it was last changed, which the model leaves open
st_mtimes(f, p) ==
    IF is_file(f, p) THEN {f[p].mtime}
    ELSE IF is_dir(f, p) THEN {1689379200, 946684800}
    ELSE {0}

\* create_timestamp_subdirectory_Structure(file, target_directory), where
\* st_mtime is what file.stat() answers when the file exists
create_timestamp_subdirectory_Structure(f, file, target_directory, st_mtime) ==
    IF target_directory # None /\ target_directory.type # "Path"
    THEN [fs |-> f, res |-> Raise("TypeError")]
    ELSE IF ~ exists(f, file.path)
    THEN [fs |-> f, res |-> Raise("FileNotFoundError")]
    ELSE LET dir == IF target_directory = None THEN cwd ELSE target_directory.path
             date == timefstring(st_mtime)
             new_path == dir \o <<Digits(date.year), Digits02(date.month)>>
         IN IF ~ mkdir_ok(f, new_path)
            THEN [fs |-> f, res |-> Raise("FileExistsError")]
            ELSE [fs |-> mkdir(f, new_path), res |-> Return(PathObj(new_path))]

\* copy_to_target_and_divide_by_filedate(file, target_directory): the default
\* directory is handed on as Path.cwd(), and the copy is asked for with
\* file.name, a str, as the file
copy_to_target_and_divide_by_filedate(f, file, target_directory, st_mtime) ==
    IF target_directory # None /\ target_directory.type # "Path"
    THEN [fs |-> f, res |-> Raise("TypeError")]
    ELSE LET dir == IF target_directory = None THEN PathObj(cwd) ELSE target_directory
             made == create_timestamp_subdirectory_Structure(f, file, dir, st_mtime)
         IN IF made.res.kind = "raise" THEN made
            ELSE copy_to_target(made.fs, StrObj(name_of(file.path)), made.res.value)

\* name[0:k] with Python's slice rules: a negative k counts from the end
slice0(name, k) ==
    LET stop == IF k < 0 THEN (IF Len(name) + k < 0 THEN 0 ELSE Len(name) + k)
                ELSE (IF k > Len(name) THEN Len(name) ELSE k)
    IN SubSeq(name, 1, stop)

\* copy_to_target_and_divide_by_dictionary(file, target_directory, characters)
copy_to_target_and_divide_by_dictionary(f, file, target_directory, characters) ==
    IF characters # None /\ characters.type # "int"
    THEN [fs |-> f, res |-> Raise("TypeError")]
    ELSE IF target_directory # None /\ target_directory.type # "Path"
    THEN [fs |-> f, res |-> Raise("TypeError")]
    ELSE LET k == IF characters = None THEN 1 ELSE characters.int
             dir == IF target_directory = None THEN cwd ELSE target_directory.path
             prefix == slice0(name_of(file.path), k)
             \* target_directory / "<prefix>/": an empty prefix leaves "/", the root
             new_path == IF prefix = <<>> THEN <<>> ELSE dir \o <<prefix>>
         IN IF ~ mkdir_ok(f, new_path)
            THEN [fs |-> f, res |-> Raise("FileExistsError")]
            ELSE copy_to_target(mkdir(f, new_path), StrObj(name_of(file.path)), PathObj(new_path))

-----------------------------------------------------------------------------
(* check_and_validate_fname (cfsiv_utils) and check_and_validate (build/lib) *)

\* check_and_validate_fname(fname, target_directory): a target whose type is
\* not Path is only logged; one that is no path at all has no mkdir
check_and_validate_fname(f, fname, target_directory) ==
    IF target_directory # None /\ target_directory.type # "PosixPath"
    THEN [fs |-> f, res |-> Raise("AttributeError")]
    ELSE LET dir == IF target_directory = None THEN cwd ELSE target_directory.path
             clean_name == clean_filename_str(fname)
         IN IF ~ mkdir_ok(f, dir)
            THEN [fs |-> f, res |-> Raise("FileExistsError")]
            ELSE [fs |-> mkdir(f, dir), res |-> Return(PathObj(JoinPath(dir, clean_name)))]

\* check_and_validate(fname, target_directory, rename): unique_name is bound
\* only on the branch that renames
check_and_validate(f, fname, target_directory, rename) ==
    IF target_directory # None /\ target_directory.type # "Path"
    THEN [fs |-> f, res |-> Raise("TypeError")]
    ELSE IF rename # None /\ rename.type # "bool"
    THEN [fs |-> f, res |-> Raise("TypeError")]
    ELSE LET dir == IF target_directory = None THEN cwd ELSE target_directory.path
             ren == IF rename = None THEN FALSE ELSE rename.bool
             clean_name == clean_filename_str_build(fname)
             OUT_PATH_HANDLE == JoinPath(dir, clean_name)
             made == mkdir(f, dir)
         IN IF ~ mkdir_ok(f, dir)
            THEN [fs |-> f, res |-> Raise("FileExistsError")]
            ELSE IF is_file(made, OUT_PATH_HANDLE)
            THEN (IF ren
                  THEN [fs |-> made, res |-> Return(PathObj(new_name_if_exists(made, OUT_PATH_HANDLE)))]
                  ELSE [fs |-> made, res |-> Return(None)])
            ELSE [fs |-> made, res |-> Raise("UnboundLocalError")]

-----------------------------------------------------------------------------
(* write_csv *)

\* a record is an ordered dict: a sequence of <<key, value>> pairs
keys(rec) == [i \in 1..Len(rec) |-> rec[i][1]]
values(rec) == [i \in 1..Len(rec) |-> Digits(rec[i][2])]

\* csv.writer(...).writerow(fields): the fields joined by the delimiter; the
\* fields here hold no delimiter, quote or line break, so none is quoted
RECURSIVE writerow(_)
writerow(fields) ==
    IF fields = <<>> THEN <<>>
    ELSE IF Len(fields) = 1 THEN fields[1]
    ELSE fields[1] \o <<",">> \o writerow(Tail(fields))

\* the rows "for item in data: csv_obj.writerow(item.values())" appends
rows_of(data) == [i \in 1..Len(data) |-> writerow(values(data[i]))]

\* the path write_csv works on
csv_path(filename, directory) == JoinPath(cwd \o <<directory>>, clean_filename_str(filename))

\* needs_header that holds for every call: each call starts the file anew
needs_header_always(f, pathobj) == TRUE

\* "if not pathobj.exists()": the file is created and given a header row
needs_header(f, pathobj) == ~ exists(f, pathobj)

\* write_csv(data, filename, directory) under @logger.catch: an exception ends
\* the call where it is raised and is logged, not propagated
write_csv(f, data, filename, directory) ==
    LET dirobj == cwd \o <<directory>>
        made == check_and_validate_fname(mkdir(f, dirobj), filename, PathObj(dirobj))
    IN IF ~ mkdir_ok(f, dirobj)
       THEN [fs |-> f, res |-> Caught("FileExistsError")]
       ELSE LET pathobj == made.res.value.path
                \* open(pathobj, "w") creates or empties the file before data[0] is read
                opened == [q \in DOMAIN made.fs \cup {pathobj} |->
                             IF q = pathobj THEN File(<<>>, 0) ELSE made.fs[q]]
            IN IF needs_header(made.fs, pathobj) /\ is_dir(made.fs, pathobj)
               THEN [fs |-> made.fs, res |-> Caught("IsADirectoryError")]
               ELSE IF needs_header(made.fs, pathobj) /\ data = <<>>
               THEN [fs |-> opened, res |-> Caught("IndexError")]
               ELSE LET headed == IF needs_header(made.fs, pathobj)
                                  THEN [opened EXCEPT ![pathobj].data = <<writerow(keys(data[1]))>>]
                                  ELSE made.fs
                    IN IF is_dir(headed, pathobj)
                       THEN [fs |-> headed, res |-> Caught("IsADirectoryError")]
                       ELSE [fs |-> [headed EXCEPT ![pathobj].data = @ \o rows_of(data)],
                             res |-> Return(None)]

-----------------------------------------------------------------------------
(* log_handling.py: the Rotator.  Instants are whole hours since the         *)
(* midnight the run starts from; lengths and sizes are in bytes.             *)

\* dt.timedelta(days=1), in hours
Day == 24

\* no Rotator has been constructed, no log file opened
NoRotator == [size_limit |-> 0, time_limit |-> 0]
NoSink == [tell |-> 0, clock |-> 0]

\* now.replace(hour=at.hour, minute=at.minute, second=at.second)
replace_time(now, at) == (now \div Day) * Day + at

\* Rotator.__init__(size=size, at=at) at the instant now
Rotator_init(size, at, now) ==
    [size_limit |-> size,
     time_limit |-> IF now >= replace_time(now, at)
                    THEN replace_time(now, at) + Day
                    ELSE replace_time(now, at)]

\* Rotator.should_rotate(message, file): tell is file.tell() after
\* file.seek(0, 2), len the length of the message, time its timestamp; gives
\* the Rotator afterwards and the value returned
should_rotate(self, len, tell, time) ==
    IF tell + len > self.size_limit
    THEN [self |-> self, res |-> TRUE]
    ELSE IF time > self.time_limit
    THEN [self |-> [self EXCEPT !.time_limit = @ + Day], res |-> TRUE]
    ELSE [self |-> self, res |-> FALSE]

-----------------------------------------------------------------------------
(* The calls on the filesystem: sanitising, collision avoidance, copying *)

\* again: the call before this one was the same operation on the same arguments
NoCall == [op |-> "none", args |-> <<>>, res |-> Return(None), again |-> FALSE]
Call(op, args, res) ==
    [op |-> op, args |-> args, res |-> res, again |-> (last.op = op /\ last.args = args)]

\* the files a run starts from: a source file in the working directory,
\* and what may be there besides
BaseFs ==
    (<<>> :> Dir) @@ (<<Ns>> :> Dir) @@ (<<Ns, Nabt>> :> File(1, 1689379200))

InitFss ==
    { BaseFs,
      BaseFs @@ (<<Nr>> :> Dir) @@ (<<Nr, Na>> :> File(2, 946684800)),
      BaseFs @@ (<<Nr>> :> Dir) @@ (<<Nr, Na>> :> File(2, 946684800))
             @@ (<<Ns, Na>> :> Dir) @@ (<<Ns, Na, Na>> :> File(3, 946684800)) }

FileArgs == {PathObj(<<Ns, Nabt>>), PathObj(<<Ns, Nzz>>)}
CopyFileArgs == FileArgs \cup {PathObj(<<Nr, Na>>)}
TargetArgs == {None, PathObj(<<Nr>>), StrObj(Nr)}
CharactersArgs == {None, IntObj(3), IntObj(7), IntObj(0), IntObj(-1), StrObj(<<"3">>)}
FnameArgs == {Nabt, Na, <<"a", "-">>, <<"-">>}
RenameArgs == {None, BoolObj(TRUE), BoolObj(FALSE), StrObj(<<"y">>)}
NewNameArgs == {<<Ns, Nabt>>, <<Ns, Na>>, <<Nr, Na>>, <<Nr>>}

Room == Cardinality(DOMAIN fs) < MaxNodes

Init ==
    /\ fs \in InitFss
    /\ last = NoCall
    /\ log = <<>>
    /\ rotator = NoRotator
    /\ sink = NoSink

NewNameIfExists(file) ==
    /\ last' = Call("new_name_if_exists", <<file>>, Return(PathObj(new_name_if_exists(fs, file))))
    /\ UNCHANGED <<fs, log, rotator, sink>>

CopyToTarget(file, target) ==
    /\ Room
    /\ LET r == copy_to_target(fs, file, target)
       IN /\ fs' = r.fs
          /\ last' = Call("copy_to_target", <<file, target>>, r.res)
    /\ UNCHANGED <<log, rotator, sink>>

CopyToTargetAndDivideByFiledate(file, target) ==
    /\ Room
    /\ \E st_mtime \in st_mtimes(fs, file.path) :
         LET r == copy_to_target_and_divide_by_filedate(fs, file, target, st_mtime)
         IN /\ fs' = r.fs
            /\ last' = Call("copy_to_target_and_divide_by_filedate", <<file, target>>, r.res)
    /\ UNCHANGED <<log, rotator, sink>>

CopyToTargetAndDivideByDictionary(file, target, characters) ==
    /\ Room
    /\ LET r == copy_to_target_and_divide_by_dictionary(fs, file, target, characters)
       IN /\ fs' = r.fs
          /\ last' = Call("copy_to_target_and_divide_by_dictionary", <<file, target, characters>>, r.res)
    /\ UNCHANGED <<log, rotator, sink>>

CheckAndValidateFname(fname, target) ==
    /\ Room
    /\ LET r == check_and_validate_fname(fs, fname, target)
       IN /\ fs' = r.fs
          /\ last' = Call("check_and_validate_fname", <<fname, target>>, r.res)
    /\ UNCHANGED <<log, rotator, sink>>

CheckAndValidate(fname, target, rename) ==
    /\ Room
    /\ LET r == check_and_validate(fs, fname, target, rename)
       IN /\ fs' = r.fs
          /\ last' = Call("check_and_validate", <<fname, target, rename>>, r.res)
    /\ UNCHANGED <<log, rotator, sink>>

Next ==
    \/ \E file \in NewNameArgs : NewNameIfExists(file)
    \/ \E file \in CopyFileArgs, target \in TargetArgs : CopyToTarget(file, target)
    \/ \E file \in FileArgs, target \in TargetArgs : CopyToTargetAndDivideByFiledate(file, target)
    \/ \E file \in FileArgs, target \in TargetArgs, characters \in CharactersArgs :
          CopyToTargetAndDivideByDictionary(file, target, characters)

Spec == Init /\ [][Next]_vars

\* the safe-destination calls, with copies in between to fill the target
NextValidate ==
    \/ \E fname \in FnameArgs, target \in TargetArgs : CheckAndValidateFname(fname, target)
    \/ \E fname \in FnameArgs, target \in TargetArgs, rename \in RenameArgs :
          CheckAndValidate(fname, target, rename)
    \/ \E file \in CopyFileArgs, target \in TargetArgs : CopyToTarget(file, target)

SpecValidate == Init /\ [][NextValidate]_vars

-----------------------------------------------------------------------------
(* clean_filename_str on its own *)

Alphabet == {"a", ".", "-", "/", "*"}

Strings == UNION {[1..n -> Alphabet] : n \in 0..MaxLen}

CleanFilenameStr(s) ==
    /\ last' = Call("clean_filename_str", <<s>>, Return(PathText(clean_filename_str(s))))
    /\ UNCHANGED <<fs, log, rotator, sink>>

CleanFilenameStrBuild(s) ==
    /\ last' = Call("clean_filename_str_build", <<s>>, Return(PathText(clean_filename_str_build(s))))
    /\ UNCHANGED <<fs, log, rotator, sink>>

InitClean ==
    /\ fs = BaseFs
    /\ last = NoCall
    /\ log = <<>>
    /\ rotator = NoRotator
    /\ sink = NoSink

NextClean ==
    \/ \E s \in Strings : CleanFilenameStr(s)
    \/ \E s \in Strings : CleanFilenameStrBuild(s)

SpecClean == InitClean /\ [][NextClean]_vars

-----------------------------------------------------------------------------
(* write_csv on its own *)

Records == { << <<Na, 1>>, <<Nb, 2>> >>, << <<Na, 3>>, <<Nb, 4>> >> }

\* batches of records with the keys a, b, and one batch with another key
Batches == UNION {[1..n -> Records] : n \in 0..MaxBatch} \cup {<< << <<Nx, 5>> >> >>}

FilenameArgs == {<<"-", "t">>, <<"-">>}

\* the CSV directory is absent, or there and empty, or holds an established file
InitCsvFss ==
    { (<<>> :> Dir) @@ (<<Ns>> :> Dir),
      (<<>> :> Dir) @@ (<<Ns>> :> Dir) @@ (<<Ns, Nc>> :> Dir),
      (<<>> :> Dir) @@ (<<Ns>> :> Dir) @@ (<<Ns, Nc>> :> Dir)
         @@ (<<Ns, Nc, Nt>> :> File(<< <<"a", ",", "b">>, <<"1", ",", "2">> >>, 0)) }

Calls == IF DOMAIN log = {} THEN 0
         ELSE LET n[S \in SUBSET DOMAIN log] ==
                      IF S = {} THEN 0
                      ELSE LET p == CHOOSE q \in S : TRUE IN Len(log[p].batches) + n[S \ {p}]
              IN n[DOMAIN log]

WriteCsv(data, filename) ==
    /\ Calls < MaxCalls
    /\ LET r == write_csv(fs, data, filename, Nc)
           p == csv_path(filename, Nc)
       IN /\ fs' = r.fs
          /\ last' = Call("write_csv", <<data, filename>>, r.res)
          /\ log' = IF p \in DOMAIN log THEN [log EXCEPT ![p].batches = Append(@, data)]
                    ELSE (p :> [absent |-> ~ exists(fs, p), batches |-> <<data>>]) @@ log
    /\ UNCHANGED <<rotator, sink>>

InitCsv ==
    /\ fs \in InitCsvFss
    /\ last = NoCall
    /\ log = <<>>
    /\ rotator = NoRotator
    /\ sink = NoSink

NextCsv == \E data \in Batches, filename \in FilenameArgs : WriteCsv(data, filename)

SpecCsv == InitCsv /\ [][NextCsv]_vars

-----------------------------------------------------------------------------
(* The rotating log sink on its own *)

SizeArgs == {4, 6}
AtArgs == {0, 6}
NowArgs == {0, 5, 23}
LenArgs == {1, 3}
\* hours between one message and the next
StepArgs == {0, 1, 13, 24, 49}

\* rotator = Rotator(size=..., at=...), and the sink's file is opened empty
InitRotator ==
    /\ fs = BaseFs
    /\ last = NoCall
    /\ log = <<>>
    /\ \E size \in SizeArgs, at \in AtArgs, now \in NowArgs :
          /\ rotator = Rotator_init(size, at, now)
          /\ sink = [tell |-> 0, clock |-> now]

\* the sink handles one message: it asks should_rotate, starts a new file
\* when told to, and writes the message
Log(len, step) ==
    /\ sink.clock + step <= MaxTime
    /\ LET time == sink.clock + step
           r == should_rotate(rotator, len, sink.tell, time)
       IN /\ rotator' = r.self
          /\ sink' = [tell |-> (IF r.res THEN 0 ELSE sink.tell) + len, clock |-> time]
          /\ last' = Call("should_rotate", <<len, sink.tell, time>>, Return(r.res))
    /\ UNCHANGED <<fs, log>>

NextRotator == \E len \in LenArgs, step \in StepArgs : Log(len, step)

SpecRotator == InitRotator /\ [][NextRotator]_vars

-----------------------------------------------------------------------------
(* Properties *)

IsReturnPath(res, p) == res.kind = "return" /\ res.value.type = "PosixPath" /\ res.value.path = p
IsReturnNone(res) == res.kind = "return" /\ res.value.type = "NoneType"

\* the directory a target_directory argument stands for
DirOf(target) == IF target = None THEN cwd ELSE target.path

RECURSIVE Deleted(_)
\* s with every occurrence of \ / : * ? < > | - deleted
Deleted(s) ==
    IF s = <<>> THEN <<>>
    ELSE IF Head(s) \in {"\\", "/", ":", "*", "?", "<", ">", "|", "-"} THEN Deleted(Tail(s))
    ELSE <<Head(s)>> \o Deleted(Tail(s))

\* C1: clean_filename_str(s) is exactly s with every occurrence of the
\* characters \ / : * ? < > | - deleted: nothing else is removed, reordered
\* or inserted.
C1_CleanIsDeletion ==
    last.op = "clean_filename_str" => last.res.value.text = Deleted(last.args[1])

\* stem(n)suffix next to p
Variant(p, n) ==
    with_name(p, stem(name_of(p)) \o <<"(">> \o Digits(n) \o <<")">> \o suffix(name_of(p)))

\* C2: new_name_if_exists(p) returns the first entry of p, stem(1)suffix,
\* stem(2)suffix, ... that does not exist: p itself when p does not exist,
\* otherwise stem(n)suffix for the least n >= 1 whose path does not exist; the
\* returned path does not exist at return time.
C2_FirstThatDoesNotExist ==
    last.op = "new_name_if_exists" =>
        LET p == last.args[1]
            r == last.res.value.path
        IN /\ ~ exists(fs, r)
           /\ ~ exists(fs, p) => r = p
           /\ exists(fs, p) =>
                \E n \in 1..(Cardinality(DOMAIN fs) + 1) :
                    /\ r = Variant(p, n)
                    /\ \A k \in 1..(n - 1) : exists(fs, Variant(p, k))

\* C3: once the target directory is created and the name sanitised (to a
\* name that has characters left), the
\* safe-destination call returns target_dir/sanitized_name when that path
\* does not exist, the collision-resolved path when it exists and renaming is
\* allowed, and None when it exists and renaming is not allowed
\* (check_and_validate_fname has no rename argument: its documented default
\* is not to rename).
C3_SafeDestination ==
    (/\ last.op \in {"check_and_validate_fname", "check_and_validate"}
     /\ last.args[2].type \in {"NoneType", "PosixPath"}
     /\ last.op = "check_and_validate" => last.args[3].type \in {"NoneType", "bool"}
     /\ Deleted(last.args[1]) # <<>>
     /\ is_dir(fs, DirOf(last.args[2])))
    =>
        LET path == JoinPath(DirOf(last.args[2]), Deleted(last.args[1]))
            rename == /\ last.op = "check_and_validate"
                      /\ last.args[3].type = "bool"
                      /\ last.args[3].bool
        IN IF ~ exists(fs, path) THEN IsReturnPath(last.res, path)
           ELSE IF rename THEN IsReturnPath(last.res, new_name_if_exists(fs, path))
           ELSE IsReturnNone(last.res)

\* C4: a safe-destination call made right after the same call, with the same
\* name and target directory, renaming allowed and nothing else touching the
\* filesystem in between, gives the same outcome as the first.
C4_SameTwice ==
    [][(/\ last'.again
        /\ last'.op \in {"check_and_validate_fname", "check_and_validate"}
        /\ last'.op = "check_and_validate" => last'.args[3] = BoolObj(TRUE))
       => last'.res = last.res]_vars

\* C4 witness: the second of two equal calls that allow renaming has returned
\* a renamed path, the name it asked for being taken
C4_Witness ==
    /\ last.again
    /\ last.op = "check_and_validate"
    /\ last.args[3] = BoolObj(TRUE)
    /\ last.res.kind = "return"
    /\ last.res.value.type = "PosixPath"
    /\ is_file(fs, with_name(last.res.value.path, clean_filename_str_build(last.args[1])))
    /\ ~ exists(fs, last.res.value.path)

\* C5: a copy_to_target call leaves every file that existed before it in
\* place with its content unchanged, and a successful call adds exactly one
\* new file.
C5_CopyKeepsFiles ==
    [][last'.op = "copy_to_target" =>
        /\ \A p \in Files(fs) : is_file(fs', p) /\ fs'[p] = fs[p]
        /\ last'.res.kind = "return" =>
              Cardinality(Files(fs')) = Cardinality(Files(fs)) + 1]_vars

\* C6: copy_to_target_and_divide_by_filedate(file, root) for an existing file
\* modified in year Y, month M succeeds and leaves a copy at root/Y/MM/<name>;
\* a file modified on 2023-07-15 (Unix time 1689379200) goes to root/2023/07.
C6_CopiedByDate ==
    (/\ last.op = "copy_to_target_and_divide_by_filedate"
     /\ last.args[2].type \in {"NoneType", "PosixPath"}
     /\ is_file(fs, last.args[1].path)
     /\ fs[last.args[1].path].mtime = 1689379200)
    =>
        LET file == last.args[1].path
            dest == DirOf(last.args[2]) \o << <<"2", "0", "2", "3">>, <<"0", "7">>, name_of(file) >>
        IN /\ last.res.kind = "return"
           /\ is_file(fs, dest)
           /\ fs[dest].data = fs[file].data

\* the first k characters of a name, the whole name when it is shorter
Prefix(name, k) == SubSeq(name, 1, IF k < Len(name) THEN k ELSE Len(name))

\* C7: copy_to_target_and_divide_by_dictionary(file, root, characters=k) with
\* k a positive integer succeeds and leaves a copy at
\* root/<first k characters of the name>/<name>, the prefix being the whole
\* name when the name is shorter than k.
C7_CopiedByPrefix ==
    (/\ last.op = "copy_to_target_and_divide_by_dictionary"
     /\ last.args[2].type \in {"NoneType", "PosixPath"}
     /\ last.args[3].type = "int"
     /\ last.args[3].int > 0
     /\ is_file(fs, last.args[1].path))
    =>
        LET file == last.args[1].path
            dest == DirOf(last.args[2]) \o <<Prefix(name_of(file), last.args[3].int), name_of(file)>>
        IN /\ last.res.kind = "return"
           /\ is_file(fs, dest)
           /\ fs[dest].data = fs[file].data

\* C8: copy_to_target_and_divide_by_dictionary with a characters value that
\* is not a positive integer fails with a validation error and leaves the
\* filesystem as it was: no directory is created, no file copied.
C8_BadCharactersRejected ==
    [][(/\ last'.op = "copy_to_target_and_divide_by_dictionary"
        /\ last'.args[3] # None
        /\ last'.args[3].type = "int" => last'.args[3].int <= 0)
       =>
        /\ last'.res.kind = "raise"
        /\ last'.res.value \in {"TypeError", "ValueError"}
        /\ fs' = fs]_vars

RECURSIVE Flatten(_)
\* the records of a sequence of batches, in call order and batch order
Flatten(batches) == IF batches = <<>> THEN <<>> ELSE Head(batches) \o Flatten(Tail(batches))

\* every batch has a record and all records have the same keys in the same order
Uniform(batches) ==
    /\ \A i \in 1..Len(batches) : batches[i] # <<>>
    /\ \A i \in 1..Len(Flatten(batches)) : keys(Flatten(batches)[i]) = keys(Flatten(batches)[1])

\* the directory write_csv is called with
CsvDir == cwd \o <<Nc>>

\* the CSV paths that did not exist when the run began
\* C9: after any sequence of write_csv calls on one initially absent file,
\* each with a non-empty batch of records that share their keys and key
\* order, the file is one header row (the keys of the first record of the
\* first call) followed by one data row per record, in call order and in
\* batch order within a call.
C9_HeaderThenRows ==
    \A p \in DOMAIN log :
        (p # CsvDir /\ log[p].absent /\ Uniform(log[p].batches)) =>
            LET recs == Flatten(log[p].batches)
            IN /\ is_file(fs, p)
               /\ fs[p].data = <<writerow(keys(recs[1]))>>
                                  \o [i \in 1..Len(recs) |-> writerow(values(recs[i]))]

\* C9 witness: two calls have appended to a file that was absent, and it
\* holds the header and their rows
C9_Witness ==
    \E p \in DOMAIN log :
        /\ p # CsvDir
        /\ log[p].absent
        /\ Uniform(log[p].batches)
        /\ Len(log[p].batches) >= 2
        /\ is_file(fs, p)
        /\ Len(fs[p].data) = 1 + Len(Flatten(log[p].batches))

\* C10: a write_csv call whose batch has a record whose keys differ from the
\* header established in the file is rejected with a schema-mismatch error
\* and leaves the file as it was.
C10_MismatchRejected ==
    [][(/\ last'.op = "write_csv"
        /\ is_file(fs, csv_path(last'.args[2], Nc))
        /\ fs[csv_path(last'.args[2], Nc)].data # <<>>
        /\ \E i \in 1..Len(last'.args[1]) :
              writerow(keys(last'.args[1][i])) # fs[csv_path(last'.args[2], Nc)].data[1])
       =>
        /\ last'.res.kind \in {"raise", "caught"}
        /\ last'.res.value = "SchemaMismatch"
        /\ fs' = fs]_vars

\* C11: should_rotate returns true exactly when the file offset plus the
\* message length exceeds the size limit or the message timestamp is past the
\* next rotation instant; on every call whose timestamp is past that instant
\* the instant moves on by exactly one day, and on every other call it stays.
C11_RotateAndAdvance ==
    [][last'.op = "should_rotate" =>
        LET len == last'.args[1]
            tell == last'.args[2]
            time == last'.args[3]
        IN /\ last'.res.value = (tell + len > rotator.size_limit \/ time > rotator.time_limit)
           /\ time > rotator.time_limit => rotator'.time_limit = rotator.time_limit + Day
           /\ ~ (time > rotator.time_limit) => rotator'.time_limit = rotator.time_limit]_vars

\* the call that produced the state returned true on the time test
RotatedOnTime ==
    /\ last.op = "should_rotate"
    /\ last.res.value = TRUE
    /\ ~ (last.args[2] + last.args[1] > rotator.size_limit)

\* C12: with non-decreasing timestamps, right after should_rotate returned
\* true because the time boundary was crossed, the stored rotation instant is
\* strictly later than that message's timestamp, and a following message with
\* the same timestamp that fits the size limit does not rotate again.
C12_NoImmediateRotation ==
    RotatedOnTime =>
        /\ rotator.time_limit > last.args[3]
        /\ \A len \in LenArgs :
              sink.tell + len <= rotator.size_limit =>
                  ~ should_rotate(rotator, len, sink.tell, sink.clock).res

\* the header rows the batches can give: the field names of a record
HeaderRows == UNION { { writerow(keys(data[i])) : i \in DOMAIN data } : data \in Batches }

\* C13: after any sequence of write_csv calls on one file name, calls with an
\* empty batch included, a target file that exists and holds at least one row
\* has a header row of field names as its first row, not a data row.
C13_FirstRowIsHeader ==
    \A p \in DOMAIN log :
        (p # CsvDir /\ is_file(fs, p) /\ fs[p].data # <<>>) =>
            fs[p].data[1] \in HeaderRows

====
